---- MODULE Spec2Model ----
(***************************************************************************)
(* TunableOp (aten/src/ATen/cuda/tunable/TunableOp.h): the operation       *)
(* facade operator(), the memoized Signature(), RegisterOp and the         *)
(* selector FindFastest with its WarmUp / Profile harness.                 *)
(*                                                                         *)
(* Doubles are modelled by naturals with the sentinel Infinity; a          *)
(* candidate Call is an external computation whose status is drawn from    *)
(* Status, a timer reading is drawn from env.timer.                         *)
(***************************************************************************)
EXTENDS Naturals, Integers, Sequences, FiniteSets, TLC

\* ---------------------------------------------------------------- bounds
MaxOps == 3          \* longest sequence of RegisterOp calls of a constructor
NumThreads == 2      \* threads that may invoke the facade concurrently

\* ------------------------------------------------------- program constants
Infinity == 999            \* std::numeric_limits<double>::infinity()
approx_num_iter == 3       \* constexpr const int approx_num_iter = 3
DefaultTuningIter == 100   \* int tuning_iter = 100; // default
DefaultWarmupIter == 1     \* int warmup_iter = 1; // default

Threads == 1..NumThreads
CandNames == {"Default", "A"}
ParamSigs == {"p1", "p2"}
Status == {"OK", "FAIL"}
TypeName == "TunableOp<P,T>"

\* ResultEntry (Tunable.h): a key and a time; equality compares the key.
ResultEntry(k, d) == [key |-> k, time |-> d]
ResultNull == ResultEntry("Null", 0)
ResultDefault == ResultEntry("Default", 0)
ResultEq(a, b) == a.key = b.key

VARIABLES
  phase,        \* "ready", or "crashed" once the process died
  ops_,         \* name -> candidate (registration number; 0 = null pointer)
  op_names_,    \* names in RegisterOp order
  signature_,   \* the memoized signature string ("" before it is written)
  once,         \* signature_init_once_: "init", "running", "done"
  created,      \* number of CreateSignature executions so far
  cache,        \* TuningResultsManager: <<op_sig, params_sig>> -> ResultEntry
  ctx,          \* TuningContext: flags and knobs
  env,          \* what the surroundings can present: timer readings (mean
                \* durations), callers' parameter signatures, GetSize values
  pc,           \* per thread: position in operator() / Signature / FindFastest
  inv,          \* per thread: locals of the current operator() invocation
  ff            \* per thread: locals of the current FindFastest run

vars == <<phase, ops_, op_names_, signature_, once, created, cache, ctx, env, pc, inv, ff>>

\* --------------------------------------------------------------- locals
\* params_sig, op_sig, result are the locals of operator(); ret is where the
\* Signature() call in progress returns to; the other fields record what the
\* invocation did: the key the cache held at Lookup, whether FindFastest ran,
\* whether Add was called, whether a candidate failed the correctness gate,
\* the candidate dispatched to and its status, the returned status, and the
\* failed check that ended the invocation.
NoInv == [params_sig |-> "", op_sig |-> "", enabled |-> FALSE,
          result |-> ResultNull, cached |-> "",
          ranFF |-> FALSE, wrote |-> FALSE, gateFailed |-> FALSE,
          called |-> "", callStatus |-> "", status |-> "", why |-> "", ret |-> ""]

\* i, min_duration_ms, id_name, param_size, param_count, use_buffer_rotation
\* and approx_duration are the locals of FindFastest; gate is the outcome of
\* the correctness gate of entry i, warmup_iter and tuning_iter hold the
\* counts last passed to WarmUp and Profile, hist has one record per entry
\* of op_names_ the loop is through with.  warmup_calls holds the number of
\* candidate calls the last WarmUp had to make, harness the status of the
\* Call that ended the last Profile or WarmUp.  reference, reusable and
\* numerical are the deep copies: reference_params, the pool
\* reusable_params (its copies are made and deleted together) and one
\* numerical_params per gate with numerics-checking on, each "none", "live"
\* or "deleted"; stale records a Call, NumericalCheck or Delete on a copy
\* that was not live.
NoFF == [i |-> 0, min_duration_ms |-> Infinity, id_name |-> "Default",
         param_size |-> 0, param_count |-> 0, rotate |-> FALSE, approx |-> 0,
         gate |-> "", warmup_iter |-> {}, tuning_iter |-> {}, hist |-> <<>>,
         warmup_calls |-> {}, harness |-> "",
         reference |-> "none", reusable |-> "none", numerical |-> <<>>,
         stale |-> FALSE]

\* ------------------------------------------------------------ registry
\* RegisterOp: op_names_.emplace_back(name); ops_.emplace(name, op), which
\* keeps the entry already present under that name.  A registry is the pair
\* of members [ops_, op_names_]; a candidate is its registration number.
RegisterOp(reg, name) ==
  [op_names_ |-> Append(reg.op_names_, name),
   ops_ |-> IF name \in DOMAIN reg.ops_ THEN reg.ops_
            ELSE [n \in DOMAIN reg.ops_ \cup {name} |->
                    IF n = name THEN Len(reg.op_names_) + 1 ELSE reg.ops_[n]]]

EmptyRegistry == [op_names_ |-> <<>>, ops_ |-> [n \in {} |-> 0]]

\* The registry a subclass constructor leaves after registering names in order.
RECURSIVE Construct(_)
Construct(names) ==
  IF names = <<>> THEN EmptyRegistry
  ELSE RegisterOp(Construct(SubSeq(names, 1, Len(names) - 1)), names[Len(names)])

NameSeqs(n) == UNION {[1..k -> CandNames] : k \in 0..n}

Running == phase = "ready"

\* ------------------------------------------------------------ signature
\* CreateSignature: the demangled name of the dynamic type.
CreateSignature == TypeName

\* c10::call_once on signature_init_once_: the first caller runs the
\* initializer, a caller arriving while it runs blocks, a later one skips it.
CallOnceRuns(flag) == flag = "init"
CallOnceSkips(flag) == flag = "done"

\* Where a Signature() call returns to.
SigReturn(t) == inv[t].ret

\* Signature() without the once guard: every caller runs the initializer.
SignatureEnter_NoOnce(t) ==
  /\ Running
  /\ pc[t] = "sig"
  /\ once' = "running"
  /\ pc' = [pc EXCEPT ![t] = "sig_create"]
  /\ UNCHANGED <<phase, ops_, op_names_, signature_, created, cache, ctx, env, inv, ff>>

\* Signature(), line 80: enter call_once.
SignatureEnter(t) ==
  /\ Running
  /\ pc[t] = "sig"
  /\ \/ /\ CallOnceRuns(once)
        /\ once' = "running"
        /\ pc' = [pc EXCEPT ![t] = "sig_create"]
        /\ UNCHANGED inv
     \/ /\ CallOnceSkips(once)
        /\ once' = once
        /\ inv' = [inv EXCEPT ![t].op_sig = signature_]
        /\ pc' = [pc EXCEPT ![t] = SigReturn(t)]
  /\ UNCHANGED <<phase, ops_, op_names_, signature_, created, cache, ctx, env, ff>>

\* The initializer: signature_ = CreateSignature().
SignatureCreate(t) ==
  /\ Running
  /\ pc[t] = "sig_create"
  /\ signature_' = CreateSignature
  /\ created' = created + 1
  /\ pc' = [pc EXCEPT ![t] = "sig_set"]
  /\ UNCHANGED <<phase, ops_, op_names_, once, cache, ctx, env, inv, ff>>

\* call_once marks the flag done; Signature() returns signature_ (line 81).
SignatureDone(t) ==
  /\ Running
  /\ pc[t] = "sig_set"
  /\ once' = "done"
  /\ inv' = [inv EXCEPT ![t].op_sig = signature_]
  /\ pc' = [pc EXCEPT ![t] = SigReturn(t)]
  /\ UNCHANGED <<phase, ops_, op_names_, signature_, created, cache, ctx, env, ff>>

\* A caller invokes the public Signature() directly.
SignatureCall(t) ==
  /\ Running
  /\ pc[t] = "idle"
  /\ inv' = [inv EXCEPT ![t] = [NoInv EXCEPT !.ret = "sig_ret"]]
  /\ ff' = [ff EXCEPT ![t] = NoFF]
  /\ pc' = [pc EXCEPT ![t] = "sig"]
  /\ UNCHANGED <<phase, ops_, op_names_, signature_, once, created, cache, ctx, env>>

\* ---------------------------------------------------------- results cache
\* TuningResultsManager::Lookup: the entry stored under the key pair, or Null.
Lookup(c, op_sig, params_sig) ==
  IF <<op_sig, params_sig>> \in DOMAIN c THEN c[<<op_sig, params_sig>>] ELSE ResultNull

Store(c, key, r) == [k \in DOMAIN c \cup {key} |-> IF k = key THEN r ELSE c[k]]

\* TuningResultsManager::Add: inserts the entry; for a key already present
\* the manager may keep the entry it has or take the new one.
Add(c, op_sig, params_sig, r) ==
  IF <<op_sig, params_sig>> \in DOMAIN c
  THEN {c, Store(c, <<op_sig, params_sig>>, r)}
  ELSE {Store(c, <<op_sig, params_sig>>, r)}

\* ------------------------------------------------------------ operator()
\* operator() that looks the decision up even with the feature flag off.
UseDefaultWhenDisabled_Never(enabled) == FALSE

\* operator() with the test of line 51 inverted.
UseDefaultWhenDisabled_Swapped(enabled) == enabled

\* Lines 49-51 and 62-64: read the feature flag; when it is off the result
\* is Default, otherwise Signature() is called first.
UseDefaultWhenDisabled(enabled) == ~enabled

OpCall(t) ==
  /\ Running
  /\ pc[t] = "idle"
  /\ \E p \in env.params :
       inv' = [inv EXCEPT ![t] =
                 [NoInv EXCEPT !.params_sig = p,
                               !.enabled = ctx.enabled,
                               !.ret = "lookup",
                               !.result = IF UseDefaultWhenDisabled(ctx.enabled)
                                          THEN ResultDefault ELSE ResultNull]]
  /\ pc' = [pc EXCEPT ![t] = IF UseDefaultWhenDisabled(ctx.enabled) THEN "dispatch" ELSE "sig"]
  /\ ff' = [ff EXCEPT ![t] = NoFF]
  /\ UNCHANGED <<phase, ops_, op_names_, signature_, once, created, cache, ctx, env>>

\* Line 57 without the test for a previous result.
ShouldTune_Always(result, tuning) == tuning

\* Line 57: tune iff nothing was found and tuning is enabled.
ShouldTune(result, tuning) == ResultEq(result, ResultNull) /\ tuning

\* Lines 54-57: params->Signature(), mgr.Lookup, then the tuning decision.
OpLookup(t) ==
  /\ Running
  /\ pc[t] = "lookup"
  /\ LET r == Lookup(cache, inv[t].op_sig, inv[t].params_sig)
         tune == ShouldTune(r, ctx.tuning)
         key == <<inv[t].op_sig, inv[t].params_sig>>
     IN /\ inv' = [inv EXCEPT ![t].result = r,
                              ![t].cached = IF key \in DOMAIN cache
                                            THEN cache[key].key ELSE "Null",
                              ![t].ret = "ff_setup"]
        /\ pc' = [pc EXCEPT ![t] = IF tune THEN "sig" ELSE "dispatch"]
  /\ UNCHANGED <<phase, ops_, op_names_, signature_, once, created, cache, ctx, env, ff>>

\* operator() without line 59: the Result is dispatched to but not stored.
OpAdd_NoStore(t) ==
  /\ Running
  /\ pc[t] = "add"
  /\ inv' = [inv EXCEPT ![t].wrote = TRUE]
  /\ pc' = [pc EXCEPT ![t] = "dispatch"]
  /\ UNCHANGED <<phase, ops_, op_names_, signature_, once, created, cache, ctx, env, ff>>

\* Line 59: mgr.Add(op_sig, params_sig, result).
OpAdd(t) ==
  /\ Running
  /\ pc[t] = "add"
  /\ cache' \in Add(cache, inv[t].op_sig, inv[t].params_sig, inv[t].result)
  /\ inv' = [inv EXCEPT ![t].wrote = TRUE]
  /\ pc' = [pc EXCEPT ![t] = "dispatch"]
  /\ UNCHANGED <<phase, ops_, op_names_, signature_, once, created, ctx, env, ff>>

\* Lines 65-68 replacing every result by Default.
Decision_Default(result) == ResultDefault

\* Lines 65-68: a Null result becomes Default.
Decision(result) == IF ResultEq(result, ResultNull) THEN ResultDefault ELSE result

\* Lines 65-71: ops_.find(result), TORCH_CHECK, Call; the status of the Call
\* is the status operator() returns.
OpDispatch(t) ==
  /\ Running
  /\ pc[t] = "dispatch"
  /\ LET d == Decision(inv[t].result)
     IN IF d.key \notin DOMAIN ops_
        THEN /\ inv' = [inv EXCEPT ![t].result = d, ![t].why = "unregistered"]
             /\ pc' = [pc EXCEPT ![t] = "fatal"]
        ELSE \E st \in Status :
               /\ inv' = [inv EXCEPT ![t].result = d, ![t].called = d.key,
                                     ![t].callStatus = st, ![t].status = st]
               /\ pc' = [pc EXCEPT ![t] = "done"]
  /\ UNCHANGED <<phase, ops_, op_names_, signature_, once, created, cache, ctx, env, ff>>

\* The caller takes the returned status (or catches the error) and is free
\* to invoke again.
OpReturn(t) ==
  /\ Running
  /\ pc[t] \in {"done", "fatal", "sig_ret"}
  /\ pc' = [pc EXCEPT ![t] = "idle"]
  /\ inv' = [inv EXCEPT ![t] = NoInv]
  /\ ff' = [ff EXCEPT ![t] = NoFF]
  /\ UNCHANGED <<phase, ops_, op_names_, signature_, once, created, cache, ctx, env>>

\* ----------------------------------------------------------- FindFastest
Min(a, b) == IF a < b THEN a ELSE b
Max(a, b) == IF a > b THEN a ELSE b

\* 2 * min_duration_ms in double arithmetic: twice infinity is infinity.
Twice(d) == IF d = Infinity THEN Infinity ELSE 2 * d

\* What a double-to-int conversion can yield when the value is not
\* representable (infinite, NaN or out of range): undefined behaviour.
UndefinedInt == {-2147483647 - 1, 0, 2147483647}

\* int duration_iters = max_duration / approx_duration (lines 198, 215).
DurationIters(max_duration, approx_duration) ==
  IF approx_duration = 0 THEN UndefinedInt
  ELSE {max_duration \div approx_duration}

\* Lines 194-208: the warmup iteration count.
WarmupIter(c, approx_duration) ==
  IF c.max_warmup_duration >= 0
  THEN {IF c.max_warmup_iter >= 0 THEN Min(c.max_warmup_iter, di) ELSE di :
          di \in DurationIters(c.max_warmup_duration, approx_duration)}
  ELSE IF c.max_warmup_iter >= 0 THEN {c.max_warmup_iter}
  ELSE {DefaultWarmupIter}

\* Lines 211-225: the tuning iteration count before the clamps.
RawTuningIter(c, approx_duration) ==
  IF c.max_tuning_duration > 0
  THEN {IF c.max_tuning_iter > 0 THEN Min(c.max_tuning_iter, di) ELSE di :
          di \in DurationIters(c.max_tuning_duration, approx_duration)}
  ELSE IF c.max_tuning_iter > 0 THEN {c.max_tuning_iter}
  ELSE {DefaultTuningIter}

\* Lines 226-229 without the clamp to the number of pooled copies.
ClampTuningIter_NoPool(raw, pool) == Max(1, raw)

\* Lines 226-229: at least 1, and at least the number of pooled copies.
ClampTuningIter(raw, pool) == Max(pool, Max(1, raw))

TuningIter(c, approx_duration, pool) ==
  {ClampTuningIter(raw, pool) : raw \in RawTuningIter(c, approx_duration)}

\* Line 143 without the extra copy.
ParamCount_NoExtra(rotating_size, param_size) == rotating_size \div param_size

\* Lines 140-143: param_count = rotating_size / param_size + 1.
ParamCount(rotating_size, param_size) == (rotating_size \div param_size) + 1

\* Line 141: use_buffer_rotation.
UseBufferRotation(rotating_size) == rotating_size > 0

\* Line 187: bail if too slow.
TooSlow(approx_duration, min_duration_ms) == approx_duration > Twice(min_duration_ms)

\* Line 240 without the comparison: the last measurement always leads.
Better_Last(duration_ms, min_duration_ms) == TRUE

\* Line 240: a measurement becomes the leader only when strictly smaller.
Better(duration_ms, min_duration_ms) == duration_ms < min_duration_ms

\* size_t num_iter of WarmUp (line 91) receiving the int warmup_iter: a
\* negative int converts to 2^64 + warmup_iter.  The value is low, plus 2^64
\* when wrapped.
SizeT(n) == [wrapped |-> n < 0, low |-> n]

\* Lines 94-99: the loop of WarmUp makes num_iter candidate calls.
WarmUpCalls(warmup_iter) == SizeT(warmup_iter)

\* DeepCopy (lines 135, 155, 162) and Delete (lines 169, 248, 250).
DeepCopy == "live"
Delete == "deleted"

\* A Call, NumericalCheck or Delete on the copy whose state is s.
Use(f, s) == f.stale \/ s # "live"

\* One record per evaluated entry of op_names_: what the loop body did with it.
Entry(name, gate, out, dur) == [name |-> name, gate |-> gate, out |-> out, dur |-> dur]

Skip(t, f, e) ==
  /\ ff' = [ff EXCEPT ![t] = [f EXCEPT !.i = @ + 1, !.hist = Append(@, e),
                                       !.harness = ""]]
  /\ pc' = [pc EXCEPT ![t] = "ff_loop"]

\* WarmUp / Profile with the status of the Call ignored: the loop goes on.
Fatal_Ignored(t, why) ==
  /\ pc' = [pc EXCEPT ![t] = "ff_loop"]
  /\ inv' = [inv EXCEPT ![t].why = why]

\* A failed TORCH_CHECK: the error leaves FindFastest and operator().
Fatal(t, why) ==
  /\ pc' = [pc EXCEPT ![t] = "fatal"]
  /\ inv' = [inv EXCEPT ![t].why = why]

\* Lines 123-156: the reference copy and the reference answer from
\* ops_["Default"], then the pool of deep copies.  ops_[...] inserts a null
\* entry when "Default" is missing and the call through it kills the process;
\* a param_size of 0 divides by zero.
FFSetup(t) ==
  /\ Running
  /\ pc[t] = "ff_setup"
  /\ LET ref == [NoFF EXCEPT !.reference = DeepCopy]
         pool(size, count) ==
           [ref EXCEPT !.i = 1, !.param_size = size, !.param_count = count,
                       !.rotate = UseBufferRotation(ctx.rotating_size),
                       !.reusable = DeepCopy]
     IN IF "Default" \notin DOMAIN ops_
        THEN /\ ops_' = [n \in DOMAIN ops_ \cup {"Default"} |->
                           IF n = "Default" THEN 0 ELSE ops_[n]]
             /\ phase' = "crashed"
             /\ inv' = [inv EXCEPT ![t].ranFF = TRUE]
             /\ ff' = [ff EXCEPT ![t] = ref]
             /\ UNCHANGED pc
        ELSE /\ UNCHANGED ops_
             /\ \E st \in Status :
                  IF st # "OK"
                  THEN /\ pc' = [pc EXCEPT ![t] = "fatal"]
                       /\ inv' = [inv EXCEPT ![t].why = "reference", ![t].ranFF = TRUE]
                       /\ ff' = [ff EXCEPT ![t] = ref]
                       /\ UNCHANGED phase
                  ELSE \E size \in env.sizes :
                         IF size = 0
                         THEN \/ /\ phase' = "crashed"
                                 /\ inv' = [inv EXCEPT ![t].ranFF = TRUE]
                                 /\ ff' = [ff EXCEPT ![t] = ref]
                                 /\ UNCHANGED pc
                              \/ /\ ff' = [ff EXCEPT ![t] = pool(0, 1)]
                                 /\ pc' = [pc EXCEPT ![t] = "ff_loop"]
                                 /\ inv' = [inv EXCEPT ![t].ranFF = TRUE]
                                 /\ UNCHANGED phase
                         ELSE /\ ff' = [ff EXCEPT ![t] =
                                          pool(size, ParamCount(ctx.rotating_size, size))]
                              /\ pc' = [pc EXCEPT ![t] = "ff_loop"]
                              /\ inv' = [inv EXCEPT ![t].ranFF = TRUE]
                              /\ UNCHANGED phase
  /\ UNCHANGED <<op_names_, signature_, once, created, cache, ctx, env>>

\* The gate without its two `continue`s: a failing candidate goes on to timing.
FFGate_NoSkip(t) ==
  /\ Running
  /\ pc[t] = "ff_loop"
  /\ ff[t].i <= Len(op_names_)
  /\ \E st \in Status, chk \in Status :
       /\ ff' = [ff EXCEPT ![t].gate = IF st # "OK" THEN "FAIL"
                                       ELSE IF ctx.numerics /\ chk # "OK" THEN "MISMATCH"
                                       ELSE "OK"]
       /\ inv' = [inv EXCEPT ![t].gateFailed = @ \/ st # "OK" \/ (ctx.numerics /\ chk # "OK")]
       /\ pc' = [pc EXCEPT ![t] = "ff_approx"]
  /\ UNCHANGED <<phase, ops_, op_names_, signature_, once, created, cache, ctx, env>>

\* The gate with its status checked like the harness checks: a failing
\* candidate ends the run in the fatal check failure.
FFGate_Checked(t) ==
  /\ Running
  /\ pc[t] = "ff_loop"
  /\ ff[t].i <= Len(op_names_)
  /\ \E st \in Status, chk \in Status :
       IF st # "OK" \/ (ctx.numerics /\ chk # "OK")
       THEN /\ pc' = [pc EXCEPT ![t] = "fatal"]
            /\ inv' = [inv EXCEPT ![t].gateFailed = TRUE, ![t].why = "gate"]
            /\ UNCHANGED ff
       ELSE /\ ff' = [ff EXCEPT ![t].gate = "OK"]
            /\ pc' = [pc EXCEPT ![t] = "ff_approx"]
            /\ UNCHANGED inv
  /\ UNCHANGED <<phase, ops_, op_names_, signature_, once, created, cache, ctx, env>>

\* Lines 158-181: the correctness gate of entry i.  With numerics-checking
\* on the Call runs on a fresh copy, which is deleted after NumericalCheck
\* (line 169) but not on the `continue` of line 166; with it off the Call
\* runs on reusable_params[0].
FFGate(t) ==
  /\ Running
  /\ pc[t] = "ff_loop"
  /\ ff[t].i <= Len(op_names_)
  /\ LET name == op_names_[ff[t].i]
         f == ff[t]
         pooled == [f EXCEPT !.stale = Use(f, f.reusable)]
         unsupported == [f EXCEPT !.numerical = Append(@, DeepCopy)]
         compared == [f EXCEPT !.numerical = Append(@, Delete),
                               !.stale = Use(f, f.reference)]
     IN \E st \in Status, chk \in Status :
          IF st # "OK"
          THEN /\ Skip(t, IF ctx.numerics THEN unsupported ELSE pooled,
                       Entry(name, "FAIL", "unsupported", 0))
               /\ inv' = [inv EXCEPT ![t].gateFailed = TRUE]
          ELSE IF ctx.numerics /\ chk # "OK"
          THEN /\ Skip(t, compared, Entry(name, "MISMATCH", "numerics", 0))
               /\ inv' = [inv EXCEPT ![t].gateFailed = TRUE]
          ELSE /\ ff' = [ff EXCEPT ![t] =
                           [(IF ctx.numerics THEN compared ELSE pooled)
                              EXCEPT !.gate = "OK"]]
               /\ pc' = [pc EXCEPT ![t] = "ff_approx"]
               /\ UNCHANGED inv
  /\ UNCHANGED <<phase, ops_, op_names_, signature_, once, created, cache, ctx, env>>

\* Lines 183-190: Profile over approx_num_iter calls on the pool, then the
\* early bail.
FFApprox(t) ==
  /\ Running
  /\ pc[t] = "ff_approx"
  /\ LET name == op_names_[ff[t].i]
         f == [ff[t] EXCEPT !.stale = Use(ff[t], ff[t].reusable)]
     IN \E st \in Status :
          IF st # "OK"
          THEN /\ Fatal(t, "approx")
               /\ ff' = [ff EXCEPT ![t] = [f EXCEPT !.harness = st]]
          ELSE \E approx_duration \in env.timer :
                 IF TooSlow(approx_duration, f.min_duration_ms)
                 THEN /\ Skip(t, f, Entry(name, f.gate, "slow", 0))
                      /\ UNCHANGED inv
                 ELSE /\ ff' = [ff EXCEPT ![t] =
                                  [f EXCEPT !.approx = approx_duration, !.harness = st]]
                      /\ pc' = [pc EXCEPT ![t] = "ff_tune"]
                      /\ UNCHANGED inv
  /\ UNCHANGED <<phase, ops_, op_names_, signature_, once, created, cache, ctx, env>>

\* Lines 192-245: calibration, WarmUp, the full Profile, and the comparison
\* with the running minimum.
FFTune(t) ==
  /\ Running
  /\ pc[t] = "ff_tune"
  /\ LET name == op_names_[ff[t].i]
         a == ff[t].approx
         f == [ff[t] EXCEPT !.stale = Use(ff[t], ff[t].reusable)]
     IN \E w \in WarmupIter(ctx, a), n \in TuningIter(ctx, a, f.param_count) :
        \E wst \in Status, st \in Status :
          IF WarmUpCalls(w) # SizeT(0) /\ wst # "OK"
          THEN /\ Fatal(t, "warmup")
               /\ ff' = [ff EXCEPT ![t] =
                           [f EXCEPT !.warmup_iter = {w}, !.warmup_calls = {},
                                     !.harness = wst]]
          ELSE IF st # "OK"
          THEN /\ Fatal(t, "measure")
               /\ ff' = [ff EXCEPT ![t] =
                           [f EXCEPT !.warmup_iter = {w}, !.tuning_iter = {n},
                                     !.warmup_calls = {WarmUpCalls(w)},
                                     !.harness = st]]
          ELSE \E duration_ms \in env.timer :
                 /\ ff' = [ff EXCEPT ![t] =
                             [f EXCEPT
                                !.i = @ + 1,
                                !.warmup_iter = {w},
                                !.tuning_iter = {n},
                                !.warmup_calls = {WarmUpCalls(w)},
                                !.harness = "",
                                !.hist = Append(@, Entry(name, f.gate, "timed", duration_ms)),
                                !.min_duration_ms =
                                   IF Better(duration_ms, @) THEN duration_ms ELSE @,
                                !.id_name =
                                   IF Better(duration_ms, f.min_duration_ms) THEN name ELSE @]]
                 /\ pc' = [pc EXCEPT ![t] = "ff_loop"]
                 /\ UNCHANGED inv
  /\ UNCHANGED <<phase, ops_, op_names_, signature_, once, created, cache, ctx, env>>

\* Line 253 returning the seed name with whatever minimum was measured.
FFResult_Seed(f) == ResultEntry("Default", f.min_duration_ms)

\* Line 253: ResultEntry(id_name, min_duration_ms).
FFResult(f) == ResultEntry(f.id_name, f.min_duration_ms)

\* FindFastest with reference_params and reusable_params held in members
\* shared by all callers: the teardown deletes every thread's copies.
FFReturn_Shared(t) ==
  /\ Running
  /\ pc[t] = "ff_loop"
  /\ ff[t].i > Len(op_names_)
  /\ inv' = [inv EXCEPT ![t].result = FFResult(ff[t])]
  /\ ff' = [u \in Threads |->
              IF u = t THEN [NoFF EXCEPT !.reusable = Delete, !.reference = Delete]
              ELSE [ff[u] EXCEPT !.reusable = Delete, !.reference = Delete]]
  /\ pc' = [pc EXCEPT ![t] = "add"]
  /\ UNCHANGED <<phase, ops_, op_names_, signature_, once, created, cache, ctx, env>>

\* Lines 247-253: delete the pooled copies and the reference copy, return
\* the Result.  The locals are gone; what stays is the state of the copies.
FFReturn(t) ==
  /\ Running
  /\ pc[t] = "ff_loop"
  /\ ff[t].i > Len(op_names_)
  /\ inv' = [inv EXCEPT ![t].result = FFResult(ff[t])]
  /\ ff' = [ff EXCEPT ![t] =
              [NoFF EXCEPT !.reusable = Delete, !.reference = Delete,
                           !.numerical = ff[t].numerical,
                           !.stale = Use(ff[t], ff[t].reusable) \/ Use(ff[t], ff[t].reference)]]
  /\ pc' = [pc EXCEPT ![t] = "add"]
  /\ UNCHANGED <<phase, ops_, op_names_, signature_, once, created, cache, ctx, env>>

\* ------------------------------------------------------- initial states
KnobValues == {-1, 0, 2}      \* unset, zero, positive
RotatingSizes == {0, 3}

Context(en, tu, nu, rot, wd, wi, td, ti) ==
  [enabled |-> en, tuning |-> tu, numerics |-> nu, rotating_size |-> rot,
   max_warmup_duration |-> wd, max_warmup_iter |-> wi,
   max_tuning_duration |-> td, max_tuning_iter |-> ti]

Environment(tm, ps, sz) == [timer |-> tm, params |-> ps, sizes |-> sz]

\* Entries a results file loaded before the first call may hold.
Preloaded ==
  {[k \in {} |-> ResultNull]} \cup
  {[k \in {<<TypeName, "p1">>} |-> r] :
     r \in {ResultEntry("A", 1), ResultEntry("Default", 0), ResultEntry("Gone", 1)}}

InitCommon ==
  /\ phase = "ready"
  /\ signature_ = ""
  /\ once = "init"
  /\ created = 0
  /\ inv = [t \in Threads |-> NoInv]
  /\ ff = [t \in Threads |-> NoFF]

InitRegistry(names) ==
  /\ ops_ = Construct(names).ops_
  /\ op_names_ = Construct(names).op_names_

\* One caller at a time: every registry of up to MaxOps registrations, every
\* flag combination, a results cache that may be pre-populated, the knobs unset.
Init ==
  /\ InitCommon
  /\ \E names \in NameSeqs(MaxOps) : InitRegistry(names)
  /\ \E en \in BOOLEAN, tu \in BOOLEAN, nu \in BOOLEAN :
       ctx = Context(en, tu, nu, 0, -1, -1, -1, -1)
  /\ env = Environment({0, 1, 3}, {"p1"}, {1})
  /\ cache \in Preloaded
  /\ pc = [t \in Threads |-> IF t = 1 THEN "idle" ELSE "off"]

\* Concurrent callers of one facade with tuning enabled.
InitRace ==
  /\ InitCommon
  /\ InitRegistry(<<"Default">>)
  /\ ctx = Context(TRUE, TRUE, FALSE, 0, -1, -1, -1, -1)
  /\ env = Environment({1}, ParamSigs, {1})
  /\ cache = [k \in {} |-> ResultNull]
  /\ pc = [t \in Threads |-> "idle"]

\* One caller tuning a short registry: every setting of the knobs and of the
\* rotating-buffer size, every parameter size.
InitCal ==
  /\ InitCommon
  /\ \E names \in {<<"Default">>, <<"Default", "A">>} : InitRegistry(names)
  /\ \E rot \in RotatingSizes, wd \in KnobValues, wi \in KnobValues,
        td \in KnobValues, ti \in KnobValues :
       ctx = Context(TRUE, TRUE, FALSE, rot, wd, wi, td, ti)
  /\ env = Environment({0, 1, 3}, {"p1"}, {0, 1, 2})
  /\ cache = [k \in {} |-> ResultNull]
  /\ pc = [t \in Threads |-> IF t = 1 THEN "idle" ELSE "off"]

Next ==
  \E t \in Threads :
    \/ SignatureCall(t)
    \/ SignatureEnter(t)
    \/ SignatureCreate(t)
    \/ SignatureDone(t)
    \/ OpCall(t)
    \/ OpLookup(t)
    \/ FFSetup(t)
    \/ FFGate(t)
    \/ FFApprox(t)
    \/ FFTune(t)
    \/ FFReturn(t)
    \/ OpAdd(t)
    \/ OpDispatch(t)
    \/ OpReturn(t)

Spec == Init /\ [][Next]_vars
SpecRace == InitRace /\ [][Next]_vars
SpecCal == InitCal /\ [][Next]_vars

\* ================================================================ claims
KeyOf(t) == <<inv[t].op_sig, inv[t].params_sig>>

\* The thread is inside FindFastest (its Signature() call included).
InFF(t) ==
  \/ pc[t] \in {"ff_setup", "ff_loop", "ff_approx", "ff_tune"}
  \/ pc[t] \in {"sig", "sig_create", "sig_set"} /\ inv[t].ret = "ff_setup"

\* The loop over op_names_ is over: FindFastest is about to return.
AtExit(t) == pc[t] = "ff_loop" /\ ff[t].i > Len(op_names_)

InLoop(t) == pc[t] \in {"ff_loop", "ff_approx", "ff_tune"}

TimedIdx(h) == {j \in 1..Len(h) : h[j].out = "timed"}

\* A decision naming a measured candidate (not Null, not the untimed Default).
Named(r) == r.key # "Null" /\ ~(r.key = "Default" /\ r.time \in {0, Infinity})

\* C1: with the feature enabled, an invocation whose Lookup finds a decision
\* in the cache runs no FindFastest, does not write the cache, and calls
\* exactly the candidate registered under the cached name, whatever the
\* runtime-tuning flag is (an unregistered cached name ends in the check).
CacheFirstDispatch ==
  \A t \in Threads :
    (pc[t] \in {"done", "fatal"} /\ inv[t].enabled /\ inv[t].cached \notin {"", "Null"}) =>
      /\ ~inv[t].ranFF
      /\ ~inv[t].wrote
      /\ pc[t] = "done" => inv[t].called = inv[t].cached
      /\ pc[t] = "fatal" => inv[t].cached \notin DOMAIN ops_

CacheFirstDispatchWitness ==
  \E t \in Threads :
    /\ pc[t] = "done" /\ ctx.enabled /\ ctx.tuning
    /\ inv[t].cached = "A" /\ inv[t].called = "A" /\ "Default" \in DOMAIN ops_

\* C2 as stated: with tuning disabled in either way (feature flag off, or
\* runtime-tuning flag off), every dispatch goes to "Default".
FallbackOriginal ==
  \A t \in Threads :
    (pc[t] = "done" /\ (~ctx.enabled \/ ~ctx.tuning)) => inv[t].called = "Default"

\* C2 amended: with the feature flag off every dispatch goes to "Default"
\* whatever the cache holds; with only the runtime-tuning flag off the
\* dispatch goes to the cached name when the cache holds a decision for the
\* key pair and to "Default" when it holds none.
FallbackCorrectness ==
  \A t \in Threads :
    /\ (pc[t] = "done" /\ ~ctx.enabled) => inv[t].called = "Default"
    /\ (pc[t] = "fatal" /\ ~ctx.enabled) => "Default" \notin DOMAIN ops_
    /\ (pc[t] = "done" /\ ctx.enabled /\ ~ctx.tuning) =>
          /\ ~inv[t].ranFF
          /\ inv[t].called = IF inv[t].cached = "Null" THEN "Default" ELSE inv[t].cached

FallbackCorrectnessWitness ==
  \E t \in Threads :
    /\ pc[t] = "done" /\ ~ctx.enabled /\ inv[t].called = "Default"
    /\ <<TypeName, inv[t].params_sig>> \in DOMAIN cache
    /\ cache[<<TypeName, inv[t].params_sig>>].key = "A"
    /\ "A" \in DOMAIN ops_

\* C3 as stated: once a Named decision is cached for a key pair, no step of
\* a FindFastest run for that pair is taken and the entry does not change.
TuneOnceOriginal ==
  [][\A t \in Threads :
       (KeyOf(t) \in DOMAIN cache /\ Named(cache[KeyOf(t)])) =>
          /\ ~(InFF(t) /\ (pc'[t] # pc[t] \/ ff'[t] # ff[t]))
          /\ KeyOf(t) \in DOMAIN cache' /\ cache'[KeyOf(t)] = cache[KeyOf(t)]]_vars

\* C3 amended: a decision present when an invocation does its Lookup is
\* never recomputed or overwritten by that invocation.  Only an invocation
\* whose Lookup found nothing runs FindFastest or calls Add, possibly after
\* another thread has cached a decision for the pair in the meantime (the
\* redundant run of a racing thread); entries are never removed.
TuneOnce ==
  [][/\ \A t \in Threads :
          ((InFF(t) \/ pc[t] = "add") /\ pc'[t] # pc[t]) => inv[t].cached = "Null"
     /\ \A k \in DOMAIN cache :
          /\ k \in DOMAIN cache'
          /\ cache'[k] # cache[k] =>
               \E t \in Threads : /\ pc[t] = "add" /\ pc'[t] = "dispatch"
                                  /\ KeyOf(t) = k /\ inv[t].cached = "Null"]_vars

TuneOnceWitness ==
  \E t \in Threads :
    /\ pc[t] = "done" /\ inv[t].cached = "Default" /\ ~inv[t].ranFF /\ ~inv[t].wrote
    /\ Named(cache[KeyOf(t)])

\* C4: CreateSignature runs at most once and never in two threads at a
\* time, and every Signature() call that has returned saw exactly one
\* execution and returned the one fully written string.
SigReturned(t) ==
  \/ pc[t] \in {"lookup", "ff_setup", "ff_loop", "ff_approx", "ff_tune", "add", "sig_ret"}
  \/ pc[t] \in {"dispatch", "done", "fatal"} /\ inv[t].enabled

SignatureMemoization ==
  /\ created <= 1
  /\ Cardinality({t \in Threads : pc[t] \in {"sig_create", "sig_set"}}) <= 1
  /\ \A t \in Threads :
       SigReturned(t) =>
         /\ created = 1
         /\ once = "done"
         /\ inv[t].op_sig = TypeName
         /\ inv[t].op_sig = signature_

SignatureMemoizationWitness ==
  /\ created = 1
  /\ \E t \in Threads, u \in Threads :
       /\ t # u
       /\ pc[t] = "sig_ret" /\ pc[u] = "ff_loop"
       /\ inv[t].op_sig = inv[u].op_sig

\* C5: when FindFastest returns, the duration in the Result is at most the
\* measured duration of every candidate that was measured, and if any was
\* measured the Result names one of them whose measured duration is that
\* minimum.
SelectorMonotonicity ==
  \A t \in Threads :
    AtExit(t) =>
      LET h == ff[t].hist
          r == FFResult(ff[t])
      IN /\ \A j \in TimedIdx(h) : r.time <= h[j].dur
         /\ TimedIdx(h) # {} =>
              \E j \in TimedIdx(h) : h[j].name = r.key /\ h[j].dur = r.time

SelectorMonotonicityWitness ==
  \E t \in Threads :
    /\ AtExit(t)
    /\ \E j \in TimedIdx(ff[t].hist), k \in TimedIdx(ff[t].hist) :
         /\ j < k
         /\ ff[t].hist[j].dur > ff[t].hist[k].dur
         /\ FFResult(ff[t]) = ResultEntry(ff[t].hist[k].name, ff[t].hist[k].dur)

\* C6 as stated: within one FindFastest run a candidate skipped by the
\* early-bail rule is not measured afterwards and is not the name in the
\* returned Result.
EarlyBailSoundness ==
  \A t \in Threads :
    LET h == ff[t].hist
    IN \A j \in 1..Len(h) :
         h[j].out = "slow" =>
           /\ \A k \in (j + 1)..Len(h) : h[k].name = h[j].name => h[k].out # "timed"
           /\ AtExit(t) => FFResult(ff[t]).key # h[j].name

\* C7 as stated: with numerics-checking on, a candidate that failed the gate
\* gets no Profile or WarmUp call in that run and is not the name in the
\* returned Result.
CorrectnessGateOriginal ==
  \A t \in Threads :
    LET h == ff[t].hist
    IN \A j \in 1..Len(h) :
         (ctx.numerics /\ h[j].gate # "OK") =>
           /\ \A k \in 1..Len(h) : h[k].name = h[j].name => h[k].out \notin {"slow", "timed"}
           /\ AtExit(t) => FFResult(ff[t]).key # h[j].name

\* C7 amended: with numerics-checking on, an evaluation whose gate Call is
\* non-OK or whose NumericalCheck fails makes no Profile or WarmUp call and
\* never supplies the Result; the Result names that candidate only as the
\* untimed seed "Default" with infinite duration, or with the duration
\* measured in another evaluation of the same name that passed the gate.
CorrectnessGate ==
  \A t \in Threads :
    LET h == ff[t].hist
        r == FFResult(ff[t])
    IN \A j \in 1..Len(h) :
         (ctx.numerics /\ h[j].gate # "OK") =>
           /\ h[j].out \notin {"slow", "timed"}
           /\ (AtExit(t) /\ r.key = h[j].name) =>
                \/ r = ResultEntry("Default", Infinity)
                \/ \E k \in TimedIdx(h) :
                     /\ k # j /\ h[k].name = h[j].name
                     /\ h[k].gate = "OK" /\ h[k].dur = r.time

CorrectnessGateWitness ==
  \E t \in Threads :
    /\ AtExit(t) /\ ctx.numerics
    /\ \E j \in 1..Len(ff[t].hist), k \in TimedIdx(ff[t].hist) :
         /\ ff[t].hist[j].gate = "MISMATCH"
         /\ ff[t].hist[k].name # ff[t].hist[j].name
         /\ FFResult(ff[t]).key = ff[t].hist[k].name

\* C8: for rotating-buffer budget B and per-copy size S > 0 the pool holds
\* floor(B/S) + 1 copies when B > 0 and exactly 1 when B = 0, never fewer
\* than 1, and the copies are made with rotation enabled iff B > 0.
BufferPoolSizing ==
  \A t \in Threads :
    (InLoop(t) /\ ff[t].param_size > 0) =>
      LET B == ctx.rotating_size
          S == ff[t].param_size
          c == ff[t].param_count
      IN /\ c >= 1
         /\ B > 0 => (c - 1) * S <= B /\ B < c * S
         /\ B = 0 => c = 1
         /\ ff[t].rotate <=> B > 0

BufferPoolSizingWitness ==
  \E t \in Threads :
    /\ InLoop(t) /\ ctx.rotating_size = 3
    /\ ff[t].param_size = 2 /\ ff[t].param_count = 2 /\ ff[t].rotate

\* C9: every tuning iteration count passed to Profile is at least 1 and at
\* least the size of the parameter buffer pool, for every setting of the
\* duration and iteration knobs and every approximate duration.
IterationFloor ==
  \A t \in Threads :
    \A n \in ff[t].tuning_iter : n >= 1 /\ n >= ff[t].param_count

IterationFloorWitness ==
  \E t \in Threads :
    /\ ff[t].tuning_iter = {4} /\ ff[t].param_count = 4
    /\ ctx.max_tuning_iter = 2 /\ ctx.max_tuning_duration = 0

\* C10 as stated: no status returned during evaluation inside FindFastest
\* ends operator() in the fatal check failure.
ErrorContainmentOriginal ==
  \A t \in Threads :
    pc[t] = "fatal" => inv[t].why \notin {"reference", "approx", "warmup", "measure"}

\* C10 amended: a non-OK gate Call or failed NumericalCheck never ends
\* operator() in an error (the candidate is skipped); only a non-OK status of
\* the reference Call or of a Call made by Profile or WarmUp, or an
\* unregistered decision name, ends it in the fatal check failure; whenever
\* operator() returns, its status is that of the one dispatched Call.
ErrorContainment ==
  \A t \in Threads :
    /\ pc[t] = "fatal" =>
         inv[t].why \in {"reference", "approx", "warmup", "measure", "unregistered"}
    /\ pc[t] = "done" =>
         /\ inv[t].called \in DOMAIN ops_
         /\ inv[t].status = inv[t].callStatus
         /\ inv[t].status \in Status

ErrorContainmentWitness ==
  \E t \in Threads :
    /\ pc[t] = "done" /\ inv[t].ranFF /\ inv[t].gateFailed
    /\ inv[t].status = "OK"

\* C11 as stated: on every path of operator() no candidate is called
\* through a missing or null registry entry, also when "Default" was never
\* registered; an invocation that returns made its one dispatch Call on the
\* registered candidate named by the decision and returns that Call's status;
\* one that ends in the unregistered-name check called no candidate.
DispatchContract ==
  /\ \A n \in DOMAIN ops_ : ops_[n] # 0
  /\ \A t \in Threads :
       /\ pc[t] = "done" =>
            /\ inv[t].called = inv[t].result.key
            /\ inv[t].called \in DOMAIN ops_
            /\ inv[t].status = inv[t].callStatus
            /\ inv[t].status \in Status
       /\ (pc[t] = "fatal" /\ inv[t].why = "unregistered") =>
            /\ inv[t].result.key \notin DOMAIN ops_
            /\ inv[t].called = ""

\* A step of thread t inside an operator() invocation (not inside a direct
\* call of the public Signature()).
OpStep(t) ==
  /\ pc'[t] # pc[t] \/ inv'[t] # inv[t] \/ ff'[t] # ff[t]
  /\ inv[t].ret # "sig_ret"
  /\ inv'[t].ret # "sig_ret"

\* C12: with the feature flag off, no step of an operator() invocation
\* computes or reads the signature, looks the cache up, runs FindFastest or
\* adds to the cache; the cache is unchanged, and the only candidate the
\* invocation calls is "Default", in its single dispatch.
FeatureDisabledFrame ==
  [][\A t \in Threads :
       (~ctx.enabled /\ OpStep(t)) =>
          /\ cache' = cache
          /\ created' = created /\ signature_' = signature_ /\ once' = once
          /\ pc'[t] \in {"dispatch", "done", "fatal", "idle"}
          /\ ~inv'[t].ranFF /\ ~inv'[t].wrote
          /\ inv'[t].cached = "" /\ inv'[t].op_sig = ""
          /\ inv'[t].called \in {"", "Default"}
          /\ pc'[t] = "done" => inv'[t].called = "Default"
          /\ ff'[t] = NoFF]_vars

FeatureDisabledFrameWitness ==
  \E t \in Threads :
    /\ pc[t] = "done" /\ ~ctx.enabled /\ ctx.tuning
    /\ inv[t].called = "Default" /\ inv[t].op_sig = "" /\ inv[t].cached = ""
    /\ once = "init" /\ created = 0
    /\ <<TypeName, "p1">> \in DOMAIN cache
    /\ cache[<<TypeName, "p1">>] = ResultEntry("Gone", 1)

\* C13: an invocation with both flags on whose Lookup returned Null enters
\* FindFastest once, only then; the Result FindFastest returns is added under
\* the invocation's own key pair (signature, params signature) before the
\* dispatch, and the dispatch goes to the candidate named by that Result;
\* with the runtime-tuning flag off a miss runs no FindFastest and the cache
\* stays as it is.
TuneOnMiss ==
  [][\A t \in Threads :
       /\ (pc'[t] = "ff_setup" /\ pc[t] # "ff_setup") =>
            /\ ~inv[t].ranFF
            /\ inv[t].enabled /\ ctx.tuning /\ inv[t].cached = "Null"
       /\ (pc[t] = "add" /\ pc'[t] = "dispatch") =>
            /\ inv[t].ranFF /\ inv'[t].wrote
            /\ KeyOf(t) = <<TypeName, inv[t].params_sig>>
            /\ KeyOf(t) \in DOMAIN cache'
            /\ cache'[KeyOf(t)] = inv[t].result \/ cache' = cache
            /\ KeyOf(t) \notin DOMAIN cache => cache'[KeyOf(t)] = inv[t].result
            /\ \A k \in DOMAIN cache' \ {KeyOf(t)} : k \in DOMAIN cache /\ cache'[k] = cache[k]
            /\ inv'[t].result = inv[t].result
       /\ (pc[t] = "dispatch" /\ pc'[t] # pc[t] /\ inv[t].ranFF) =>
            /\ inv[t].wrote
            /\ pc'[t] = "done"
            /\ inv'[t].called = inv[t].result.key
       /\ (pc'[t] = "done" /\ inv'[t].enabled /\ ctx.tuning /\ inv'[t].cached = "Null") =>
            inv'[t].ranFF /\ inv'[t].wrote
       /\ (~ctx.tuning /\ OpStep(t)) =>
            /\ ~inv'[t].ranFF /\ ~inv'[t].wrote
            /\ ~InFF(t) /\ pc'[t] # "add"
            /\ cache' = cache]_vars

TuneOnMissWitness ==
  \E t \in Threads :
    /\ pc[t] = "done" /\ ctx.enabled /\ ctx.tuning
    /\ inv[t].cached = "Null" /\ inv[t].ranFF /\ inv[t].wrote
    /\ inv[t].called = "A"
    /\ cache[KeyOf(t)] = ResultEntry("A", 1)
    /\ "Default" \in DOMAIN ops_

\* FindFastest has returned its Result to operator().
Returned(t) == pc[t] \in {"add", "dispatch", "done"} /\ inv[t].ranFF

\* C14 as stated: when a FindFastest run has returned, the reference copy,
\* the pooled copies and every numerics-check copy it made have been deleted
\* (once: no Delete of a copy already deleted), and no copy was used after
\* its Delete.
BufferLifetime ==
  \A t \in Threads :
    Returned(t) =>
      /\ ff[t].reference = Delete
      /\ ff[t].reusable = Delete
      /\ \A j \in 1..Len(ff[t].numerical) : ff[t].numerical[j] = Delete
      /\ ~ff[t].stale

\* C15: when a Call made by Profile (approximate or full measurement) or by
\* WarmUp on a candidate that passed the gate returns non-OK, the run ends
\* in the fatal check failure: the candidate is not skipped (the loop does
\* not move on and records nothing for it), no Result reaches operator(),
\* and the invocation ends without adding to the cache.
PostGateFatal ==
  [][\A t \in Threads :
       /\ ff'[t].harness = "FAIL" =>
            /\ ff'[t].gate = "OK"
            /\ pc'[t] = "fatal"
            /\ inv'[t].why \in {"approx", "warmup", "measure"}
            /\ ff'[t].i = ff[t].i /\ ff'[t].hist = ff[t].hist
            /\ Len(ff'[t].hist) = ff'[t].i - 1
            /\ ResultEq(inv'[t].result, ResultNull)
            /\ ~inv'[t].wrote
       /\ (pc[t] = "fatal" /\ pc'[t] # pc[t]) =>
            /\ pc'[t] = "idle"
            /\ cache' = cache]_vars

PostGateFatalWitness ==
  \E t \in Threads :
    /\ pc[t] = "fatal" /\ ff[t].harness = "FAIL" /\ inv[t].why = "warmup"
    /\ ff[t].i = 2 /\ Len(ff[t].hist) = 1 /\ ff[t].hist[1].out = "timed"
    /\ KeyOf(t) \notin DOMAIN cache

\* The count C16 gives for the knob values D (duration) and I (iterations)
\* and the approximate duration a > 0.
WarmupExpected(D, I, a) ==
  IF D >= 0 /\ I >= 0 THEN Min(I, D \div a)
  ELSE IF D >= 0 THEN D \div a
  ELSE IF I >= 0 THEN I
  ELSE 1

\* C16 as stated: the warmup iteration count passed to WarmUp is
\* floor(max_warmup_duration / approx_duration) with only the duration knob
\* configured, max_warmup_iterations with only the iteration knob, the
\* minimum with both, 1 with neither; 0 for either knob gives 0; the count
\* is never negative, and WarmUp makes exactly that many calls.
WarmupCalibration ==
  \A t \in Threads :
    (pc[t] \in {"ff_loop", "fatal"}) =>
      \A w \in ff[t].warmup_iter :
        LET D == ctx.max_warmup_duration
            I == ctx.max_warmup_iter
            a == ff[t].approx
        IN /\ w >= 0
           /\ a > 0 => w = WarmupExpected(D, I, a)
           /\ (D = 0 \/ I = 0) => w = 0
           /\ \A c \in ff[t].warmup_calls : ~c.wrapped /\ c.low = w

\* C17 as stated: FindFastest evaluates the candidates in the order of
\* their RegisterOp calls, each exactly once, and when several measured
\* candidates share the minimum duration the Result names the one
\* registered earliest.
RegistrationOrder ==
  \A t \in Threads :
    LET h == ff[t].hist
        r == FFResult(ff[t])
    IN /\ Len(h) <= Len(op_names_)
       /\ \A j \in 1..Len(h) : h[j].name = op_names_[j]
       /\ \A j \in 1..Len(h), k \in 1..Len(h) : j < k => h[j].name # h[k].name
       /\ AtExit(t) =>
            /\ \A n \in DOMAIN ops_ : Cardinality({j \in 1..Len(h) : h[j].name = n}) = 1
            /\ \A k \in TimedIdx(h) :
                 h[k].dur = r.time => ops_[r.key] <= ops_[h[k].name]

\* C18 as stated: the candidate registered as "Default" gets no Profile or
\* WarmUp call in the loop, and a Result naming "Default" carries infinity.
DefaultPureSeedOriginal ==
  \A t \in Threads :
    LET h == ff[t].hist
    IN /\ \A j \in 1..Len(h) : h[j].name = "Default" => h[j].out \notin {"slow", "timed"}
       /\ AtExit(t) => (FFResult(ff[t]).key = "Default" => FFResult(ff[t]).time = Infinity)

\* C18 amended: "Default" seeds the Result and is also a competitor.  Every
\* entry "Default" of op_names_ is evaluated by the loop in its registration
\* position like any other entry; the Result carries infinity exactly when
\* no candidate was measured, and then names "Default"; a Result naming
\* "Default" after a measurement carries the duration measured for
\* "Default" in the loop, which is the minimum of the measured durations.
DefaultPureSeed ==
  \A t \in Threads :
    LET h == ff[t].hist
        r == FFResult(ff[t])
    IN /\ \A j \in 1..Len(h) : op_names_[j] = "Default" => h[j].name = "Default"
       /\ AtExit(t) =>
            /\ Len(h) = Len(op_names_)
            /\ r.time = Infinity <=> TimedIdx(h) = {}
            /\ TimedIdx(h) = {} => r.key = "Default"
            /\ (r.key = "Default" /\ TimedIdx(h) # {}) =>
                 /\ \E j \in TimedIdx(h) : h[j].name = "Default" /\ h[j].dur = r.time
                 /\ \A k \in TimedIdx(h) : r.time <= h[k].dur

DefaultPureSeedWitness ==
  \E t \in Threads :
    /\ AtExit(t)
    /\ FFResult(ff[t]) = ResultEntry("Default", 1)
    /\ \E j \in TimedIdx(ff[t].hist), k \in TimedIdx(ff[t].hist) :
         /\ ff[t].hist[j].name = "Default" /\ ff[t].hist[j].dur = 1
         /\ ff[t].hist[k].name = "A" /\ ff[t].hist[k].dur = 3

\* C19: with threads racing through operator() from an empty cache with
\* tuning enabled and "Default" registered, no invocation ends in the
\* unregistered-name check and every dispatch goes to a registered
\* candidate; the copies of a FindFastest run are touched only by steps of
\* the thread that runs it and are live whenever it uses them; and the
\* cache entry of a key is only ever written by the Add of a thread that ran
\* FindFastest for that key, with the Result its run returned, and is never
\* removed, so once the threads have returned the key holds the Result of
\* one of their runs.
RacingCallers ==
  [][/\ \A t \in Threads :
          /\ pc'[t] = "fatal" => inv'[t].why # "unregistered"
          /\ pc'[t] = "done" => inv'[t].called \in DOMAIN ops_
          /\ ff'[t] # ff[t] =>
               \A u \in Threads \ {t} :
                 pc'[u] = pc[u] /\ inv'[u] = inv[u] /\ ff'[u] = ff[u]
          /\ ~ff'[t].stale
          /\ (pc[t] = "ff_loop" /\ pc'[t] = "add") => inv'[t].result = FFResult(ff[t])
          /\ (pc'[t] \in {"dispatch", "done"} /\ inv'[t].ranFF) =>
               /\ <<inv'[t].op_sig, inv'[t].params_sig>> \in DOMAIN cache'
               /\ inv'[t].result.key \in DOMAIN ops_
     /\ \A k \in DOMAIN cache : k \in DOMAIN cache'
     /\ \A k \in DOMAIN cache' :
          (k \notin DOMAIN cache \/ cache'[k] # cache[k]) =>
             \E t \in Threads :
               /\ pc[t] = "add" /\ pc'[t] = "dispatch"
               /\ KeyOf(t) = k /\ inv[t].ranFF
               /\ cache'[k] = inv[t].result]_vars

RacingCallersWitness ==
  \E t \in Threads, u \in Threads :
    /\ t # u
    /\ pc[t] = "done" /\ pc[u] = "done"
    /\ inv[t].ranFF /\ inv[u].ranFF /\ inv[t].wrote /\ inv[u].wrote
    /\ KeyOf(t) = KeyOf(u)
    /\ inv[t].result # inv[u].result
    /\ cache[KeyOf(t)] = inv[u].result
    /\ inv[t].called = "Default" /\ inv[u].called = "Default"

\* C20 as stated: no step of operator() or FindFastest changes the keys of
\* ops_, the candidate bound to a name or op_names_, for every registry
\* (without "Default", with a name registered twice), and the keys of ops_
\* are the names in op_names_.
RegistryFrame ==
  [][/\ ops_' = ops_
     /\ op_names_' = op_names_
     /\ DOMAIN ops_' = {op_names_'[i] : i \in 1..Len(op_names_')}]_vars

====
